---- MODULE Spec2Model ----
(***************************************************************************)
(* site2pdf: crawl a site breadth-first from a seed URL, render every      *)
(* discovered page to PDF under a concurrency limit, merge or separate the *)
(* PDFs, write them, close the browser.  Model of src/src/index.ts.        *)
(*                                                                         *)
(* Strings are sequences of one-character strings, so that normalizeURL,   *)
(* generateSlug and RegExp.test are computed character by character.       *)
(***************************************************************************)
EXTENDS Integers, Sequences, FiniteSets, TLC

(***************************************************************************)
(* Bounds of the model.                                                    *)
(***************************************************************************)
\* largest value of cpus().length that is explored
MaxLimit == 2
\* largest page count of one rendered per-page PDF
MaxPdfPages == 2

(***************************************************************************)
(* The URL strings of the modelled web site.  Hrefs are what               *)
(* `new URL(link.href, location.href).href` returns: absolute, and with    *)
(* the root path always spelled "/".                                       *)
(***************************************************************************)
Https == <<"h","t","t","p","s",":","/","/">>
Origin == Https \o <<"s","i","t","e",".","t","e","s","t">>
Root == Origin \o <<"/">>
PageA == Origin \o <<"/","a">>
PageASlash == PageA \o <<"/">>
PageAFrag == PageA \o <<"#","t","o","p">>
PageB == Origin \o <<"/","b">>
External == Origin \o <<"/","e","x","t","e","r","n","a","l">>
Mailto == <<"m","a","i","l","t","o",":","x","@","y",".","c","o","m">>
Tel == <<"t","e","l",":","1">>

(***************************************************************************)
(* String helpers (String.prototype.includes / endsWith / split("#")[0]).  *)
(***************************************************************************)
Includes(s, sub) ==
    \E i \in 1..(Len(s) - Len(sub) + 1) :
        \A k \in 1..Len(sub) : s[i + k - 1] = sub[k]

EndsWith(s, c) == Len(s) > 0 /\ s[Len(s)] = c

\* url.split("#")[0]: everything before the first "#"
BeforeHash(s) ==
    IF \E i \in 1..Len(s) : s[i] = "#"
    THEN LET first == CHOOSE i \in 1..Len(s) :
                         /\ s[i] = "#"
                         /\ \A j \in 1..(i - 1) : s[j] # "#"
         IN  SubSeq(s, 1, first - 1)
    ELSE s

normalizeURL(url) ==
    LET urlWithoutAnchor == BeforeHash(url)
    IN  IF EndsWith(urlWithoutAnchor, "/")
        THEN SubSeq(urlWithoutAnchor, 1, Len(urlWithoutAnchor) - 1)
        ELSE urlWithoutAnchor

(***************************************************************************)
(* new RegExp(pattern).test(s) for the fragment of the RegExp syntax the   *)
(* patterns of the model use: literals, "\" escapes, ".", the quantifiers  *)
(* "*", "+", "?", a leading "^" and a trailing "$".                        *)
(***************************************************************************)
\* the atom of re that starts at position i: an escaped character or one character
AtomLen(re, i) == IF re[i] = "\\" THEN 2 ELSE 1

AtomMatches(re, i, c) ==
    IF re[i] = "\\" THEN c = re[i + 1]
    ELSE IF re[i] = "." THEN TRUE
    ELSE c = re[i]

\* MatchHere(re, i, s, j): re from position i matches a prefix of s from position j
RECURSIVE MatchHere(_, _, _, _)
\* MatchStar(re, a, i, s, j): zero or more of the atom at a, then re from i
RECURSIVE MatchStar(_, _, _, _, _)

MatchStar(re, a, i, s, j) ==
    \/ MatchHere(re, i, s, j)
    \/ /\ j <= Len(s)
       /\ AtomMatches(re, a, s[j])
       /\ MatchStar(re, a, i, s, j + 1)

MatchHere(re, i, s, j) ==
    IF i > Len(re) THEN TRUE
    ELSE IF i = Len(re) /\ re[i] = "$" THEN j > Len(s)
    ELSE LET n == AtomLen(re, i)
             q == IF i + n <= Len(re) THEN re[i + n] ELSE ""
         IN  IF q = "*" THEN MatchStar(re, i, i + n + 1, s, j)
             ELSE IF q = "+"
                  THEN /\ j <= Len(s)
                       /\ AtomMatches(re, i, s[j])
                       /\ MatchStar(re, i, i + n + 1, s, j + 1)
             ELSE IF q = "?"
                  THEN \/ MatchHere(re, i + n + 1, s, j)
                       \/ /\ j <= Len(s)
                          /\ AtomMatches(re, i, s[j])
                          /\ MatchHere(re, i + n + 1, s, j + 1)
             ELSE /\ j <= Len(s)
                  /\ AtomMatches(re, i, s[j])
                  /\ MatchHere(re, i + n, s, j + 1)

RegExpTest(re, s) ==
    IF re # << >> /\ re[1] = "^"
    THEN MatchHere(re, 2, s, 1)
    ELSE \E j \in 1..(Len(s) + 1) : MatchHere(re, 1, s, j)

(***************************************************************************)
(* generateSlug: the chain of String.prototype.replace calls.              *)
(***************************************************************************)
LowerAlphabet == <<"a","b","c","d","e","f","g","h","i","j","k","l","m",
                   "n","o","p","q","r","s","t","u","v","w","x","y","z">>
UpperAlphabet == <<"A","B","C","D","E","F","G","H","I","J","K","L","M",
                   "N","O","P","Q","R","S","T","U","V","W","X","Y","Z">>
Digits == {"0","1","2","3","4","5","6","7","8","9"}
\* the character class \w
WordChars == {LowerAlphabet[i] : i \in 1..26} \cup {UpperAlphabet[i] : i \in 1..26}
                 \cup Digits \cup {"_"}
\* the character class \s
SpaceChars == {" ", "\t", "\n"}

ToLowerChar(c) ==
    IF \E i \in 1..26 : UpperAlphabet[i] = c
    THEN LowerAlphabet[CHOOSE i \in 1..26 : UpperAlphabet[i] = c]
    ELSE c

RECURSIVE DropWhile(_, _)
DropWhile(s, set) ==
    IF s # << >> /\ s[1] \in set THEN DropWhile(Tail(s), set) ELSE s

\* s.replace(/[set]+/g, r)
RECURSIVE ReplaceRuns(_, _, _)
ReplaceRuns(s, set, r) ==
    IF s = << >> THEN << >>
    ELSE IF s[1] \in set
         THEN <<r>> \o ReplaceRuns(DropWhile(s, set), set, r)
         ELSE <<s[1]>> \o ReplaceRuns(Tail(s), set, r)

\* s.replace(/https?:\/\//, ""): the leftmost match only, anywhere in s
StripScheme(s) ==
    LET http  == <<"h","t","t","p",":","/","/">>
        https == <<"h","t","t","p","s",":","/","/">>
        At(i, w) == i + Len(w) - 1 <= Len(s) /\ SubSeq(s, i, i + Len(w) - 1) = w
        Hit(i) == At(i, http) \/ At(i, https)
    IN  IF \E i \in 1..Len(s) : Hit(i)
        THEN LET i == CHOOSE k \in 1..Len(s) : Hit(k) /\ \A j \in 1..(k - 1) : ~Hit(j)
                 w == IF At(i, http) THEN http ELSE https
             IN  SubSeq(s, 1, i - 1) \o SubSeq(s, i + Len(w), Len(s))
        ELSE s

\* s.replace(/^-|-$/g, "")
TrimHyphen(s) ==
    LET a == IF s # << >> /\ s[1] = "-" THEN Tail(s) ELSE s
    IN  IF EndsWith(a, "-") THEN SubSeq(a, 1, Len(a) - 1) ELSE a

generateSlug(url) ==
    LET s1 == StripScheme(url)
        s2 == [i \in 1..Len(s1) |->
                  IF s1[i] \in WordChars \cup SpaceChars \cup {"-"}
                  THEN s1[i] ELSE "-"]
        s3 == ReplaceRuns(s2, SpaceChars, "-")
        s4 == [i \in 1..Len(s3) |-> IF s3[i] = "." THEN "-" ELSE s3[i]]
        s5 == ReplaceRuns(s4, {"-"}, "-")
        s6 == TrimHyphen(s5)
    IN  [i \in 1..Len(s6) |-> ToLowerChar(s6[i])]

(***************************************************************************)
(* Inputs of a run: the arguments of main, the machine's CPU count and the *)
(* web site that is crawled.                                               *)
(***************************************************************************)
Seeds == {Root, PageA, PageAFrag}

\* urlPattern absent (undefined or ""): main falls back to ^mainURL
NoPattern == << >>
Patterns == {NoPattern, <<"/","a">>, <<".">>}

\* the anchors of a page, already resolved, in document order
Nav == <<Root, PageA, PageB, External, Mailto>>
Mixed == <<PageASlash, PageAFrag, Tel, PageB>>
LinkLists == {<< >>, Nav, Mixed}

\* the documents the site serves, keyed by normalized URL; any other URL
\* serves a document without anchors
SitePages == {Origin, PageA, PageB}
Sites == [SitePages -> LinkLists]

VARIABLES
    mainURL,         \* main's first argument
    urlPattern,      \* main's second argument, NoPattern when absent
    separate,        \* options.separate
    concurrentLimit, \* cpus().length
    site,            \* the web site: normalized URL -> anchors of its document
    pc,              \* position of main
    browser,         \* ctx.browser: "none", "open" or "closed"
    closeCalls,      \* number of calls of browser.close()
    error,           \* the error caught by main, "none" when there is none
    crawledUrls,     \* the Set crawledUrls, in insertion order
    queue,           \* the array queue
    crawlTab,        \* the URL of the page opened by crawlPage, NoTab when none
    uniqueSubLinks,  \* the array uniqueSubLinks
    results,         \* per submitted task: its status and its settled value
    skipped,         \* the links named by a "Skipping ..." warning
    output,          \* the value generatePDF returned
    written,         \* the files written by fs.writeFile, in order
    renderTabs,      \* the render tasks whose page (newPage) is open
    call             \* a call of an exported pure function and its result

vars == <<mainURL, urlPattern, separate, concurrentLimit, site, pc, browser,
          closeCalls, error, crawledUrls, queue, crawlTab, uniqueSubLinks,
          results, skipped, output, written, renderTabs, call>>

inputs == <<mainURL, urlPattern, separate, concurrentLimit, site>>

NoTab == <<"<", "n", "o", "n", "e", ">">>
NoCall == [fn |-> "none", args |-> << >>, ret |-> << >>]
NoBytes == [of |-> << >>, pageCount |-> 0]
Null == [url |-> << >>, buffer |-> NoBytes]
NoOutput == [kind |-> "none", pages |-> << >>, items |-> << >>]

\* the elements of a sequence
Range(s) == {s[i] : i \in 1..Len(s)}

\* Array.prototype.includes
ArrayIncludes(arr, x) == x \in Range(arr)

Init ==
    /\ mainURL \in Seeds
    /\ urlPattern \in Patterns
    /\ separate \in BOOLEAN
    /\ concurrentLimit \in 1..MaxLimit
    /\ site \in Sites
    /\ pc = "launch"
    /\ browser = "none"
    /\ closeCalls = 0
    /\ error = "none"
    /\ crawledUrls = << >>
    /\ queue = << >>
    /\ crawlTab = NoTab
    /\ uniqueSubLinks = << >>
    /\ results = << >>
    /\ skipped = {}
    /\ output = NoOutput
    /\ written = << >>
    /\ renderTabs = {}
    /\ call = NoCall

(***************************************************************************)
(* main, up to the call of generatePDF.                                    *)
(***************************************************************************)
\* const pattern = urlPattern || new RegExp(`^${mainURL}`), as a source text
pattern == IF urlPattern = NoPattern THEN <<"^">> \o mainURL ELSE urlPattern

\* useBrowserContext() returns; generatePDF starts with queue = [url]
Launch ==
    /\ pc = "launch"
    /\ browser' = "open"
    /\ queue' = <<mainURL>>
    /\ crawledUrls' = << >>
    /\ pc' = "crawl"
    /\ UNCHANGED <<inputs, call, renderTabs, closeCalls, error, crawlTab, uniqueSubLinks,
                   results, skipped, output, written>>

\* puppeteer.launch() throws: ctx stays undefined
LaunchFail ==
    /\ pc = "launch"
    /\ error' = "LaunchError"
    /\ pc' = "finally"
    /\ UNCHANGED <<inputs, call, renderTabs, browser, closeCalls, crawledUrls, queue, crawlTab,
                   uniqueSubLinks, results, skipped, output, written>>

(***************************************************************************)
(* The crawl: crawlPage and the while loop over queue.                     *)
(***************************************************************************)
\* the anchors of the document the browser shows for url
PageLinks(url) ==
    IF normalizeURL(url) \in DOMAIN site THEN site[normalizeURL(url)] ELSE << >>

\* mutant of PassesFilters: the pattern test is dropped
PassesFiltersNoPattern(resolvedUrl) ==
    /\ ~Includes(resolvedUrl, <<"#">>)
    /\ ~Includes(resolvedUrl, <<"m","a","i","l","t","o",":">>)
    /\ ~Includes(resolvedUrl, <<"t","e","l",":">>)

\* the four conditions of the page.evaluate callback
PassesFilters(resolvedUrl) ==
    /\ ~Includes(resolvedUrl, <<"#">>)
    /\ ~Includes(resolvedUrl, <<"m","a","i","l","t","o",":">>)
    /\ ~Includes(resolvedUrl, <<"t","e","l",":">>)
    /\ RegExpTest(pattern, resolvedUrl)

\* what page.evaluate returns for the page at url
subLinks(url) == SelectSeq(PageLinks(url), PassesFilters)

\* the for loop over subLinks: queue after pushing the new normalized links
RECURSIVE PushLinks(_, _, _)
\* mutant of PushLinks: the new links go to the front of the queue
PushLinksFront(q, crawled, links) ==
    LET new == SelectSeq(links, LAMBDA l :
                   /\ ~ArrayIncludes(crawled, normalizeURL(l))
                   /\ ~ArrayIncludes(q, normalizeURL(l)))
    IN  [i \in 1..Len(new) |-> normalizeURL(new[i])] \o q

PushLinks(q, crawled, links) ==
    IF links = << >> THEN q
    ELSE LET normalized == normalizeURL(links[1])
         IN  IF ~ArrayIncludes(crawled, normalized) /\ ~ArrayIncludes(q, normalized)
             THEN PushLinks(Append(q, normalized), crawled, Tail(links))
             ELSE PushLinks(q, crawled, Tail(links))

\* mutant of CrawlPageAwaited: the loop does not wait for crawlPage
CrawlPageNotAwaited(tab) == TRUE

\* await crawlPage(...): the loop goes on only when the call has returned
CrawlPageAwaited(tab) == tab = NoTab

\* queue.shift() and the head of crawlPage: dedup test, add, newPage
CrawlShift ==
    /\ pc = "crawl"
    /\ CrawlPageAwaited(crawlTab)
    /\ queue # << >>
    /\ LET currentUrl == Head(queue)
       IN  /\ queue' = Tail(queue)
           /\ IF ArrayIncludes(crawledUrls, currentUrl)
              THEN UNCHANGED <<crawledUrls, crawlTab>>
              ELSE /\ crawledUrls' = Append(crawledUrls, currentUrl)
                   /\ crawlTab' = currentUrl
    /\ UNCHANGED <<inputs, call, renderTabs, pc, browser, closeCalls, error, uniqueSubLinks,
                   results, skipped, output, written>>

\* goto and evaluate succeed: the links are pushed, the tab is closed
CrawlPage ==
    /\ pc = "crawl"
    /\ crawlTab # NoTab
    /\ queue' = PushLinks(queue, crawledUrls, subLinks(crawlTab))
    /\ crawlTab' = NoTab
    /\ UNCHANGED <<inputs, call, renderTabs, pc, browser, closeCalls, error, crawledUrls,
                   uniqueSubLinks, results, skipped, output, written>>

\* goto or evaluate throws: finally closes the tab, nothing catches the
\* error before main does
CrawlPageFail ==
    /\ pc = "crawl"
    /\ crawlTab # NoTab
    /\ crawlTab' = NoTab
    /\ error' = "CrawlFetchError"
    /\ pc' = "finally"
    /\ UNCHANGED <<inputs, call, renderTabs, browser, closeCalls, crawledUrls, queue,
                   uniqueSubLinks, results, skipped, output, written>>

\* mutant of DiscoveredList: the seed is appended instead of kept first
DiscoveredListSeedLast(crawled, url) ==
    SelectSeq(crawled, LAMBDA u : u # url) \o <<url>>

\* Array.from(crawledUrls), with the seed put first when it is missing
DiscoveredList(crawled, url) ==
    IF ~ArrayIncludes(crawled, url) THEN <<url>> \o crawled ELSE crawled

\* the while loop ends; every link is handed to limit(), none has started
CrawlDone ==
    /\ pc = "crawl"
    /\ CrawlPageAwaited(crawlTab)
    /\ queue = << >>
    /\ uniqueSubLinks' = DiscoveredList(crawledUrls, mainURL)
    /\ results' = [i \in 1..Len(uniqueSubLinks') |->
                      [status |-> "queued", value |-> Null]]
    /\ pc' = "render"
    /\ UNCHANGED <<inputs, call, renderTabs, browser, closeCalls, error, crawledUrls, queue,
                   crawlTab, skipped, output, written>>

(***************************************************************************)
(* The render stage: limit(() => generatePDFForPage(link)) for every link, *)
(* awaited by Promise.allSettled.                                          *)
(***************************************************************************)
\* the tasks p-limit has started and that have not settled
activeCount == Cardinality({i \in DOMAIN results : results[i].status = "running"})

\* mutant of HasFreeSlot: one task too many is admitted
HasFreeSlotOffByOne(active, concurrency) == active <= concurrency

\* mutant of HasFreeSlot: one slot is kept back and never used
HasFreeSlotReserved(active, concurrency) == active < concurrency - 1

\* p-limit starts a queued task only while fewer than concurrency are active
HasFreeSlot(active, concurrency) == active < concurrency

\* p-limit dequeues in submission order
NextQueued(i) ==
    /\ i \in DOMAIN results
    /\ results[i].status = "queued"
    /\ \A j \in 1..(i - 1) : results[j].status # "queued"

\* generatePDFForPage(link) starts: newPage() opens the task's tab
RenderStart(i) ==
    /\ pc = "render"
    /\ NextQueued(i)
    /\ HasFreeSlot(activeCount, concurrentLimit)
    /\ results' = [results EXCEPT ![i].status = "running"]
    /\ renderTabs' = renderTabs \cup {i}
    /\ UNCHANGED <<inputs, call, pc, browser, closeCalls, error, crawledUrls, queue,
                   crawlTab, uniqueSubLinks, skipped, output, written>>

\* mutant of ClosePage: the page is left open
ClosePageLeak(tabs, i) == tabs

\* finally { await newPage.close() }
ClosePage(tabs, i) == tabs \ {i}

\* the awaited steps of the try block, in order
RenderSteps == <<"goto", "waitForFunction", "setViewport", "waitImages",
                 "injectStyle", "pdf">>

\* what newPage.pdf() returns for the document at link: the bytes are
\* identified by the link they were captured from and by their page count; a
\* document with more anchors prints on more pages, up to MaxPdfPages
PdfBytes(link) ==
    LET n == 1 + Len(PageLinks(link))
    IN  [of |-> link, pageCount |-> IF n > MaxPdfPages THEN MaxPdfPages ELSE n]

\* every step succeeds: the task returns { url: link, buffer: pdfBytes }
RenderOk(i) ==
    /\ pc = "render"
    /\ i \in DOMAIN results
    /\ results[i].status = "running"
    /\ results' = [results EXCEPT ![i] =
                      [status |-> "fulfilled",
                       value  |-> [url |-> uniqueSubLinks[i],
                                   buffer |-> PdfBytes(uniqueSubLinks[i])]]]
    /\ renderTabs' = ClosePage(renderTabs, i)
    /\ UNCHANGED <<inputs, call, pc, browser, closeCalls, error, crawledUrls, queue,
                   crawlTab, uniqueSubLinks, skipped, output, written>>

\* step k of the try block throws: whichever step it is, catch warns and
\* returns null, and finally closes the tab
RenderSkip(i) ==
    /\ pc = "render"
    /\ i \in DOMAIN results
    /\ results[i].status = "running"
    /\ \E k \in 1..Len(RenderSteps) :
          /\ results' = [results EXCEPT ![i] =
                            [status |-> "fulfilled", value |-> Null]]
          /\ skipped' = skipped \cup {uniqueSubLinks[i]}
    /\ renderTabs' = ClosePage(renderTabs, i)
    /\ UNCHANGED <<inputs, call, pc, browser, closeCalls, error, crawledUrls, queue,
                   crawlTab, uniqueSubLinks, output, written>>

\* mutant of pdfResults: the fulfilled results in reverse order
pdfResultsReversed(res) ==
    LET kept == SelectSeq(res, LAMBDA r : r.status = "fulfilled" /\ r.value # Null)
    IN  [i \in 1..Len(kept) |-> kept[Len(kept) + 1 - i].value]

\* mutant of pdfResults: null values are not filtered out
pdfResultsKeepNull(res) ==
    LET kept == SelectSeq(res, LAMBDA r : r.status = "fulfilled")
    IN  [i \in 1..Len(kept) |-> kept[i].value]

\* results.filter(fulfilled).map(value).filter(not null)
pdfResults(res) ==
    LET kept == SelectSeq(res, LAMBDA r : r.status = "fulfilled" /\ r.value # Null)
    IN  [i \in 1..Len(kept) |-> kept[i].value]

\* Promise.allSettled resolves once every task has settled
AllSettled ==
    /\ pc = "render"
    /\ \A i \in DOMAIN results : results[i].status \in {"fulfilled", "rejected"}
    /\ pc' = "assemble"
    /\ UNCHANGED <<inputs, call, renderTabs, browser, closeCalls, error, crawledUrls, queue,
                   crawlTab, uniqueSubLinks, results, skipped, output, written>>

(***************************************************************************)
(* The tail of generatePDF: the empty check, then merge or return.         *)
(***************************************************************************)
\* mutant of NothingRendered: the empty check is missing
NothingRenderedIgnored(pr) == FALSE

\* pdfResults.length === 0
NothingRendered(pr) == Len(pr) = 0

\* throw new Error("No PDFs were generated successfully")
ThrowNoPDFs ==
    /\ pc = "assemble"
    /\ NothingRendered(pdfResults(results))
    /\ error' = "NoPDFs"
    /\ pc' = "finally"
    /\ UNCHANGED <<inputs, call, renderTabs, browser, closeCalls, crawledUrls, queue, crawlTab,
                   uniqueSubLinks, results, skipped, output, written>>

\* mutant of LoadedPages: only the first page of a document is copied
LoadedPagesFirstOnly(buffer) == <<[src |-> buffer.of, no |-> 1]>>

\* the pages of PDFDocument.load(buffer), in the order of getPageIndices()
LoadedPages(buffer) ==
    [k \in 1..buffer.pageCount |-> [src |-> buffer.of, no |-> k]]

\* the nested for loops: every page of every loaded document is added, in order
RECURSIVE MergedPages(_)
MergedPages(pr) ==
    IF pr = << >> THEN << >>
    ELSE LoadedPages(pr[1].buffer) \o MergedPages(Tail(pr))

\* combined mode: every buffer loads; the merged document is returned
Combine ==
    /\ pc = "assemble"
    /\ ~NothingRendered(pdfResults(results))
    /\ ~separate
    /\ output' = [kind  |-> "combined",
                  pages |-> MergedPages(pdfResults(results)),
                  items |-> << >>]
    /\ pc' = "write"
    /\ UNCHANGED <<inputs, call, renderTabs, browser, closeCalls, error, crawledUrls, queue,
                   crawlTab, uniqueSubLinks, results, skipped, written>>

\* combined mode: PDFDocument.load throws on one of the buffers
CombineFail ==
    /\ pc = "assemble"
    /\ ~NothingRendered(pdfResults(results))
    /\ ~separate
    /\ error' = "MalformedPDF"
    /\ pc' = "finally"
    /\ UNCHANGED <<inputs, call, renderTabs, browser, closeCalls, crawledUrls, queue, crawlTab,
                   uniqueSubLinks, results, skipped, output, written>>

\* separate mode: return pdfResults
ReturnSeparate ==
    /\ pc = "assemble"
    /\ ~NothingRendered(pdfResults(results))
    /\ separate
    /\ output' = [kind  |-> "separate",
                  pages |-> << >>,
                  items |-> pdfResults(results)]
    /\ pc' = "write"
    /\ UNCHANGED <<inputs, call, renderTabs, browser, closeCalls, error, crawledUrls, queue,
                   crawlTab, uniqueSubLinks, results, skipped, written>>

(***************************************************************************)
(* main after generatePDF: ensureDir, the writes, catch and finally.       *)
(***************************************************************************)
\* join(outputDir, `${slug}.pdf`), relative to outputDir
OutputPath(url) == generateSlug(url) \o <<".","p","d","f">>

\* the writeFile calls of main, in order
FilesToWrite ==
    IF output.kind = "separate"
    THEN [i \in 1..Len(output.items) |->
             [path |-> OutputPath(output.items[i].url),
              data |-> <<output.items[i].buffer>>]]
    ELSE <<[path |-> OutputPath(mainURL), data |-> output.pages]>>

\* ensureDir and every writeFile succeed
WriteFiles ==
    /\ pc = "write"
    /\ written' = FilesToWrite
    /\ pc' = "finally"
    /\ UNCHANGED <<inputs, call, renderTabs, browser, closeCalls, error, crawledUrls, queue,
                   crawlTab, uniqueSubLinks, results, skipped, output>>

\* ensureDir throws (k = 0) or the (k+1)-th writeFile throws
WriteFail ==
    /\ pc = "write"
    /\ \E k \in 0..(Len(FilesToWrite) - 1) :
          written' = SubSeq(FilesToWrite, 1, k)
    /\ error' = "WriteError"
    /\ pc' = "finally"
    /\ UNCHANGED <<inputs, call, renderTabs, browser, closeCalls, crawledUrls, queue, crawlTab,
                   uniqueSubLinks, results, skipped, output>>

\* mutant of MustClose: the browser is closed only when no error was caught
MustCloseOnSuccessOnly(b, err) == b = "open" /\ err = "none"

\* ctx?.browser.close(): called whenever ctx was assigned
MustClose(b, err) == b = "open"

\* the catch block has logged the error, if any; finally runs
Finally ==
    /\ pc = "finally"
    /\ IF MustClose(browser, error)
       THEN /\ browser' = "closed"
            /\ closeCalls' = closeCalls + 1
       ELSE UNCHANGED <<browser, closeCalls>>
    /\ pc' = "done"
    /\ UNCHANGED <<inputs, call, renderTabs, error, crawledUrls, queue, crawlTab, uniqueSubLinks,
                   results, skipped, output, written>>

Next ==
    \/ Launch
    \/ LaunchFail
    \/ CrawlShift
    \/ CrawlPage
    \/ CrawlPageFail
    \/ CrawlDone
    \/ \E i \in 1..Len(results) : RenderStart(i)
    \/ \E i \in 1..Len(results) : RenderOk(i)
    \/ \E i \in 1..Len(results) : RenderSkip(i)
    \/ AllSettled
    \/ ThrowNoPDFs
    \/ Combine
    \/ CombineFail
    \/ ReturnSeparate
    \/ WriteFiles
    \/ WriteFail
    \/ Finally

Spec == Init /\ [][Next]_vars

\* p-limit starts the next queued task as soon as a slot is free, and every
\* render that has started settles: page.goto and the waits have timeouts
FairSpec ==
    /\ Init
    /\ [][Next]_vars
    /\ WF_vars(\E i \in 1..Len(results) : RenderStart(i))
    /\ WF_vars(\E i \in 1..Len(results) : RenderOk(i) \/ RenderSkip(i))

(***************************************************************************)
(* The exported pure functions, called on their own: the pipeline does not *)
(* run, one function is applied to arguments drawn from bounded sets.      *)
(***************************************************************************)
\* longest argument string of a direct call of normalizeURL
MaxUrlLen == 4

\* the strings over alphabet of length at most n
Strings(alphabet, n) == UNION {[1..k -> alphabet] : k \in 0..n}

pipeline == <<mainURL, urlPattern, separate, concurrentLimit, site, pc, browser,
              closeCalls, error, crawledUrls, queue, crawlTab, uniqueSubLinks,
              results, skipped, output, written, renderTabs>>

\* main is not called
Idle ==
    /\ urlPattern = NoPattern
    /\ separate = FALSE
    /\ concurrentLimit = 1
    /\ site = [p \in SitePages |-> << >>]
    /\ pc = "idle"
    /\ browser = "none"
    /\ closeCalls = 0
    /\ error = "none"
    /\ crawledUrls = << >>
    /\ queue = << >>
    /\ crawlTab = NoTab
    /\ uniqueSubLinks = << >>
    /\ results = << >>
    /\ skipped = {}
    /\ output = NoOutput
    /\ written = << >>
    /\ renderTabs = {}

\* the characters that matter to normalizeURL, and one that does not
UrlChars == {"a", "/", "#"}

NormalizeInit ==
    /\ Idle
    /\ mainURL = Root
    /\ \E u \in Strings(UrlChars, MaxUrlLen) :
          call = [fn |-> "none", args |-> <<u>>, ret |-> << >>]

\* normalizeURL(u)
CallNormalizeURL ==
    /\ pc = "idle"
    /\ call.fn = "none"
    /\ Len(call.args) = 1
    /\ call' = [call EXCEPT !.fn = "normalizeURL",
                            !.ret = normalizeURL(call.args[1])]
    /\ UNCHANGED pipeline

NormalizeSpec == NormalizeInit /\ [][CallNormalizeURL]_vars

\* longest seed and longest link of a direct test of the default pattern
MaxSeedLen == 3
MaxLinkLen == 3

\* seeds: ordinary characters and the regular expression characters "." and
\* "?"; a seed starts with an ordinary character, as a URL does, and has no
\* "??", so that new RegExp accepts it
SeedChars == {"a", "b", ".", "?"}
SeedStrings ==
    {u \in Strings(SeedChars, MaxSeedLen) :
        /\ u # << >>
        /\ u[1] = "a"
        /\ \A i \in 1..(Len(u) - 1) : ~(u[i] = "?" /\ u[i + 1] = "?")}

LinkChars == {"a", "b", "?"}

PatternInit ==
    /\ Idle
    /\ mainURL \in SeedStrings
    /\ \E l \in Strings(LinkChars, MaxLinkLen) :
          call = [fn |-> "none", args |-> <<l>>, ret |-> << >>]

\* pattern.test(resolvedUrl) with the pattern main builds when no
\* url-pattern is given
CallPatternTest ==
    /\ pc = "idle"
    /\ call.fn = "none"
    /\ Len(call.args) = 1
    /\ call' = [call EXCEPT !.fn = "test",
                            !.ret = <<RegExpTest(pattern, call.args[1])>>]
    /\ UNCHANGED pipeline

PatternSpec == PatternInit /\ [][CallPatternTest]_vars

(***************************************************************************)
(* Vocabulary of the properties.                                           *)
(***************************************************************************)
\* generatePDF got past the while loop
CrawlCompleted == pc \in {"render", "assemble", "write"} \/ results # << >>

\* the anchors served by the pages fetched so far
ServedLinks == UNION {Range(PageLinks(crawledUrls[i])) : i \in 1..Len(crawledUrls)}

HasMarker(u) ==
    \/ Includes(u, <<"#">>)
    \/ Includes(u, <<"m","a","i","l","t","o",":">>)
    \/ Includes(u, <<"t","e","l",":">>)

\* the scope predicate of the specification, stated on its own
InScope(l) == ~HasMarker(l) /\ RegExpTest(pattern, l)

\* position of u in the discovered list (0 when absent)
IndexOf(u) ==
    IF u \in Range(uniqueSubLinks)
    THEN CHOOSE i \in 1..Len(uniqueSubLinks) : uniqueSubLinks[i] = u
    ELSE 0

\* the source URLs of the returned value, in output order
OutputUrls ==
    IF output.kind = "separate"
    THEN [i \in 1..Len(output.items) |-> output.items[i].url]
    ELSE LET firsts == SelectSeq(output.pages, LAMBDA pg : pg.no = 1)
         IN  [i \in 1..Len(firsts) |-> firsts[i].src]

AllSettledNow ==
    /\ results # << >>
    /\ \A i \in DOMAIN results : results[i].status = "fulfilled"

AllFailed == AllSettledNow /\ \A i \in DOMAIN results : results[i].value = Null

(***************************************************************************)
(* C1: a page fetch that fails during the crawl does not abort the run:    *)
(* no run is ended by a crawl fetch error.                                 *)
(* Violated: crawlPage has try/finally without catch.                      *)
(***************************************************************************)
C1_CrawlFailureDoesNotAbort == error # "CrawlFetchError"

(***************************************************************************)
(* C2: no two URLs fetched by the crawl, and no two entries of the         *)
(* discovered list, have the same normalized form.                         *)
(* Violated: the seed enters queue and crawledUrls without normalization.  *)
(***************************************************************************)
DistinctNormalized(list) ==
    \A i, j \in 1..Len(list) :
        i # j => normalizeURL(list[i]) # normalizeURL(list[j])

C2_VisitOncePerNormalizedURL ==
    /\ DistinctNormalized(crawledUrls)
    /\ DistinctNormalized(uniqueSubLinks)

(***************************************************************************)
(* C3: when the crawl loop has ended, the pending queue is empty.          *)
(* Violated: a failed fetch (C1) leaves the loop with URLs still queued.   *)
(***************************************************************************)
C3_CrawlEndsWithEmptyQueue == pc \notin {"launch", "crawl"} => queue = << >>

(***************************************************************************)
(* C4: a URL is added to the pending queue only as the normalized form of  *)
(* an anchor of the page being crawled that contains no "#", "mailto:" or  *)
(* "tel:" and matches the pattern, and the added URL contains none of the  *)
(* three markers; the visited set grows only by the URL taken from the     *)
(* queue, and the discovered list holds only visited URLs and the seed.    *)
(* Hence every discovered URL other than the seed is the normalized form   *)
(* of an anchor that passed all four filters.                              *)
(***************************************************************************)
AddedInScope(u) ==
    /\ crawlTab # NoTab
    /\ ~HasMarker(u)
    /\ \E m \in 1..Len(PageLinks(crawlTab)) :
          /\ normalizeURL(PageLinks(crawlTab)[m]) = u
          /\ InScope(PageLinks(crawlTab)[m])

C4_CrawlStep ==
    IF UNCHANGED <<queue, crawledUrls, uniqueSubLinks>> THEN TRUE
    ELSE /\ \A i \in 1..Len(queue') :
               (\A k \in 1..Len(queue) : queue[k] # queue'[i])
                   => (queue'[i] = mainURL \/ AddedInScope(queue'[i]))
         /\ \A i \in 1..Len(crawledUrls') :
               (\A k \in 1..Len(crawledUrls) : crawledUrls[k] # crawledUrls'[i])
                   => (queue # << >> /\ crawledUrls'[i] = queue[1])
         /\ \A i \in 1..Len(uniqueSubLinks') :
               \/ uniqueSubLinks'[i] = mainURL
               \/ \E k \in 1..Len(crawledUrls) : crawledUrls[k] = uniqueSubLinks'[i]

C4_CrawlScope == [][C4_CrawlStep]_vars

\* the crawl is over, it added a page, and the fetched pages served both an
\* anchor that fails the pattern and a marked anchor that matches it
C4_Witness ==
    /\ CrawlCompleted
    /\ Len(uniqueSubLinks) >= 2
    /\ \E l \in ServedLinks : ~HasMarker(l) /\ ~RegExpTest(pattern, l)
    /\ \E l \in ServedLinks : HasMarker(l) /\ RegExpTest(pattern, l)

(***************************************************************************)
(* C5: whenever the crawl completes, the seed URL is the first entry of    *)
(* the discovered list.                                                    *)
(***************************************************************************)
C5_SeedFirst ==
    CrawlCompleted =>
        /\ uniqueSubLinks # << >>
        /\ uniqueSubLinks[1] = mainURL

\* the crawl completed with more than the seed, the seed fails the pattern
\* and no fetched page links back to it
C5_Witness ==
    /\ CrawlCompleted
    /\ Len(uniqueSubLinks) >= 2
    /\ ~RegExpTest(pattern, mainURL)
    /\ \A l \in ServedLinks : normalizeURL(l) # normalizeURL(mainURL)

(***************************************************************************)
(* C6: at most concurrentLimit render tasks are started and not finished.  *)
(***************************************************************************)
C6_ConcurrencyBound == activeCount <= concurrentLimit

\* the limit is reached while another task waits for a slot
C6_Witness ==
    /\ pc = "render"
    /\ activeCount = concurrentLimit
    /\ \E i \in DOMAIN results : results[i].status = "queued"
    /\ \E i \in DOMAIN results : results[i].status = "fulfilled"

(***************************************************************************)
(* C7: the i-th render result belongs to the i-th discovered URL, and the  *)
(* URLs of the returned value follow discovery order.                      *)
(***************************************************************************)
C7_ResultAlignment ==
    /\ CrawlCompleted => Len(results) = Len(uniqueSubLinks)
    /\ \A i \in DOMAIN results :
          (results[i].status = "fulfilled" /\ results[i].value # Null)
              => results[i].value.url = uniqueSubLinks[i]
    /\ output.kind # "none" =>
          /\ \A i \in 1..(Len(OutputUrls) - 1) :
                /\ IndexOf(OutputUrls[i]) > 0
                /\ IndexOf(OutputUrls[i]) < IndexOf(OutputUrls[i + 1])
          /\ \A i \in 1..(Len(output.pages) - 1) :
                IndexOf(output.pages[i].src) <= IndexOf(output.pages[i + 1].src)

\* a later task has completed while an earlier one is still running
C7_Witness ==
    /\ pc = "render"
    /\ \E i, j \in DOMAIN results :
          /\ i < j
          /\ results[i].status = "running"
          /\ results[j].status = "fulfilled"
          /\ results[j].value # Null

(***************************************************************************)
(* C8: the returned value holds exactly the pages whose render did not     *)
(* fail, in discovery order, and a render failure ends the run only when   *)
(* every page failed.                                                      *)
(***************************************************************************)
C8_PartialFailure ==
    /\ output.kind # "none" =>
          OutputUrls = SelectSeq(uniqueSubLinks, LAMBDA u : u \notin skipped)
    /\ (pc \in {"write", "finally", "done"} /\ AllSettledNow /\ ~AllFailed)
          => error \notin {"NoPDFs", "CrawlFetchError"}
    /\ error = "NoPDFs" => Range(uniqueSubLinks) \subseteq skipped

\* one page of at least three failed and the others are in the output
C8_Witness ==
    /\ output.kind # "none"
    /\ Len(uniqueSubLinks) >= 3
    /\ Cardinality(skipped) = 1
    /\ Len(OutputUrls) = Len(uniqueSubLinks) - 1

(***************************************************************************)
(* C9: when every discovered page failed to render, generatePDF throws,    *)
(* returns no document, and no file is written.                            *)
(***************************************************************************)
C9_NoPagesRendered ==
    AllFailed =>
        /\ pc \in {"render", "assemble", "finally", "done"}
        /\ output = NoOutput
        /\ written = << >>
        /\ pc \in {"finally", "done"} => error = "NoPDFs"

\* a run of several pages ended with every render failed
C9_Witness ==
    /\ pc = "done"
    /\ AllFailed
    /\ Len(uniqueSubLinks) >= 2
    /\ error = "NoPDFs"

(***************************************************************************)
(* C10: the browser is closed at most once, exactly once by the end of     *)
(* every run that launched it, and only when no crawl page and no render   *)
(* task is open or waiting.                                                *)
(***************************************************************************)
C10_BrowserClosedOnce ==
    /\ closeCalls <= 1
    /\ (pc = "done" /\ error # "LaunchError")
          => (closeCalls = 1 /\ browser = "closed")
    /\ browser = "closed" =>
          /\ pc = "done"
          /\ crawlTab = NoTab
          /\ \A i \in DOMAIN results : results[i].status = "fulfilled"

\* a run that rendered and then failed to write has closed the browser
C10_Witness ==
    /\ pc = "done"
    /\ error = "WriteError"
    /\ closeCalls = 1
    /\ Len(results) >= 2

(***************************************************************************)
(* C11: normalizeURL is idempotent: normalizing a normalized URL returns   *)
(* it unchanged.                                                           *)
(* Violated: only one trailing "/" is removed, so "a//" gives "a/" and     *)
(* then "a".                                                               *)
(***************************************************************************)
C11_NormalizeIdempotent ==
    call.fn = "normalizeURL" => normalizeURL(call.ret) = call.ret

(***************************************************************************)
(* C12: in separate mode the number of distinct files written equals the   *)
(* number of successful render results: no two rendered URLs of a run get  *)
(* the same file name.                                                     *)
(* Violated: the seed "https://site.test/" and the link to it, normalized  *)
(* to "https://site.test", are both rendered (C2) and both have the slug   *)
(* "site-test", so the second write replaces the first.                    *)
(***************************************************************************)
C12_OneFilePerRenderedPage ==
    (pc = "done" /\ error = "none" /\ output.kind = "separate")
        => Cardinality({written[i].path : i \in DOMAIN written}) = Len(output.items)

(***************************************************************************)
(* C13: seed "https://site.test/", no explicit pattern, the pages /, /a    *)
(* and /b each linking to all three, to /external and to mailto:x@y.com:   *)
(* the discovered set is exactly the three pages, and the combined output  *)
(* is made of exactly three rendered documents when every render succeeds. *)
(* Violated: the discovered list is "/", the origin without "/" (C2),      *)
(* /a, /b and /external, which the default pattern "^https://site.test/"   *)
(* matches.                                                                *)
(***************************************************************************)
C13_EndToEnd ==
    (/\ mainURL = Root
     /\ urlPattern = NoPattern
     /\ site = [p \in SitePages |-> Nav]
     /\ CrawlCompleted)
        => /\ Range(uniqueSubLinks) = {Root, PageA, PageB}
           /\ Len(uniqueSubLinks) = 3
           /\ (output.kind = "combined" /\ skipped = {}) => Len(OutputUrls) = 3

(***************************************************************************)
(* C18: no two entries of the pending queue have the same normalized form, *)
(* and no entry of the pending queue has the normalized form of a visited  *)
(* URL.                                                                    *)
(* Violated: the seed is marked visited without normalization (C2), so the *)
(* link back to it is queued again under its normalized form.              *)
(***************************************************************************)
C18_PendingQueueInvariant ==
    /\ DistinctNormalized(queue)
    /\ \A i \in 1..Len(queue) : \A k \in 1..Len(crawledUrls) :
           normalizeURL(queue[i]) # normalizeURL(crawledUrls[k])

(***************************************************************************)
(* C14: the page count of the merged document is the sum of the page       *)
(* counts of the successfully rendered documents; the pages of each source *)
(* are contiguous and in source order, the sources follow one another in   *)
(* result order, and a failed page contributes nothing.                    *)
(***************************************************************************)
\* the successful results, in result order
Successful == SelectSeq(results, LAMBDA r : r.status = "fulfilled" /\ r.value # Null)

\* the page count of the first n successful results together
RECURSIVE PagesBefore(_)
PagesBefore(n) ==
    IF n = 0 THEN 0
    ELSE PagesBefore(n - 1) + Successful[n].value.buffer.pageCount

C14_CombinedPageCount ==
    output.kind = "combined" =>
        /\ Len(output.pages) = PagesBefore(Len(Successful))
        /\ \A i \in 1..Len(Successful) :
              \A k \in 1..Successful[i].value.buffer.pageCount :
                  output.pages[PagesBefore(i - 1) + k]
                      = [src |-> Successful[i].value.url, no |-> k]
        /\ \A j \in 1..Len(output.pages) : output.pages[j].src \notin skipped

\* a merged document of several sources, one of them with two pages, with a
\* failed page left out
C14_Witness ==
    /\ output.kind = "combined"
    /\ skipped # {}
    /\ \E j \in 1..Len(output.pages) : output.pages[j].no = 2
    /\ \E j \in 1..Len(output.pages) : output.pages[j].src # output.pages[1].src

(***************************************************************************)
(* C16: a per-page tab is open only while its crawl fetch or render task   *)
(* is running; once the render stage is over, or generatePDF has thrown,   *)
(* no per-page tab is open.                                                *)
(***************************************************************************)
C16_TabsClosed ==
    /\ \A i \in renderTabs : i \in DOMAIN results /\ results[i].status = "running"
    /\ pc # "crawl" => crawlTab = NoTab
    /\ pc \in {"assemble", "write", "finally", "done"} => renderTabs = {}

\* a run that ended after one render task succeeded and another failed
C16_Witness ==
    /\ pc = "done"
    /\ renderTabs = {}
    /\ crawlTab = NoTab
    /\ skipped # {}
    /\ \E i \in DOMAIN results : results[i].value # Null

(***************************************************************************)
(* C15: with no url-pattern the scope test of a link is exactly "the link  *)
(* starts with the seed", as a literal prefix, whatever characters the     *)
(* seed contains.                                                          *)
(* Violated: the seed is inserted unescaped into a regular expression, so  *)
(* "." in the seed matches any character and "?" makes the character       *)
(* before it optional.                                                     *)
(***************************************************************************)
StartsWith(s, prefix) ==
    /\ Len(prefix) <= Len(s)
    /\ \A i \in 1..Len(prefix) : s[i] = prefix[i]

C15_DefaultScopeIsLiteralPrefix ==
    call.fn = "test" => (call.ret[1] <=> StartsWith(call.args[1], mainURL))

(***************************************************************************)
(* C19: the crawl is sequential and precedes the render stage: a crawl     *)
(* fetch starts only when no other is in flight; render tasks exist only   *)
(* once the loop has emptied the queue and the last fetch has returned;    *)
(* and once render tasks exist, the visited set and the queue no longer    *)
(* change and no fetch starts.                                             *)
(***************************************************************************)
C19_Step ==
    /\ (crawlTab' # crawlTab /\ crawlTab' # NoTab) => crawlTab = NoTab
    /\ results' # << >> => (queue' = << >> /\ crawlTab' = NoTab)
    /\ results # << >> => UNCHANGED <<queue, crawledUrls, crawlTab>>

C19_CrawlThenRender == [][C19_Step]_vars

\* a render task is running after a crawl that fetched several pages
C19_Witness ==
    /\ activeCount > 0
    /\ Len(crawledUrls) >= 2
    /\ queue = << >>

(***************************************************************************)
(* C20: the crawl is breadth-first.  The URL fetched is always the head of *)
(* the queue; new URLs are appended behind the queued ones, in the order   *)
(* of their anchors on the page; so a URL at link distance d from the seed *)
(* is never fetched after a URL at a greater distance; and the discovered  *)
(* list is the list of fetched URLs in fetch order.                        *)
(***************************************************************************)
\* the queue entries the anchors of the page at u stand for
Targets(u) ==
    {normalizeURL(PageLinks(u)[m]) :
        m \in {n \in 1..Len(PageLinks(u)) : InScope(PageLinks(u)[n])}}

\* the URLs at link distance at most d from the seed
RECURSIVE Within(_)
Within(d) ==
    IF d = 0 THEN {mainURL}
    ELSE LET nearer == Within(d - 1)
         IN  nearer \cup UNION {Targets(u) : u \in nearer}

\* link distance from the seed of a URL that is at most n links away
Dist(u, n) ==
    CHOOSE d \in 0..n : u \in Within(d) /\ \A e \in 0..(d - 1) : u \notin Within(e)

\* position on the page being crawled of the first anchor that stands for u
\* (0 when there is none)
FirstAnchor(u) ==
    LET hits == {m \in 1..Len(PageLinks(crawlTab)) :
                    /\ InScope(PageLinks(crawlTab)[m])
                    /\ normalizeURL(PageLinks(crawlTab)[m]) = u}
    IN  IF hits = {} THEN 0 ELSE CHOOSE m \in hits : \A n \in hits : m <= n

C20_Step ==
    IF UNCHANGED <<queue, crawledUrls, uniqueSubLinks>> THEN TRUE
    ELSE IF pc = "launch"
    THEN queue' = <<mainURL>> /\ crawledUrls' = << >>
    ELSE IF uniqueSubLinks' # uniqueSubLinks
    THEN uniqueSubLinks' = crawledUrls /\ UNCHANGED <<queue, crawledUrls>>
    ELSE IF Len(queue') < Len(queue)
    THEN /\ queue' = Tail(queue)
         /\ crawledUrls' = Append(crawledUrls, Head(queue))
         /\ LET d == Dist(Head(queue), Len(crawledUrls))
            IN  \A k \in 1..Len(crawledUrls) : crawledUrls[k] \in Within(d)
    ELSE /\ crawledUrls' = crawledUrls
         /\ SubSeq(queue', 1, Len(queue)) = queue
         /\ \A i \in (Len(queue) + 1)..Len(queue') :
                /\ FirstAnchor(queue'[i]) > 0
                /\ \A j \in (i + 1)..Len(queue') :
                       FirstAnchor(queue'[i]) < FirstAnchor(queue'[j])

C20_BreadthFirst == [][C20_Step]_vars

\* a finished crawl that fetched two URLs at distance 1 and one at distance 2
C20_Witness ==
    /\ CrawlCompleted
    /\ Len(crawledUrls) >= 4
    /\ crawledUrls[2] \in Within(1) \ Within(0)
    /\ crawledUrls[3] \in Within(1) \ Within(0)
    /\ crawledUrls[Len(crawledUrls)] \in Within(2) \ Within(1)

(***************************************************************************)
(* C17: there is one render task per discovered URL; a task goes from      *)
(* queued to running once and from running to settled once, and never     *)
(* back; and, as every running render settles, every queued task is        *)
(* eventually admitted and settled: the render stage ends with every task  *)
(* settled.                                                                *)
(***************************************************************************)
C17_Step ==
    IF UNCHANGED results THEN TRUE
    ELSE IF results = << >>
    THEN /\ Len(results') = Len(uniqueSubLinks')
         /\ \A i \in 1..Len(results') : results'[i].status = "queued"
    ELSE /\ Len(results') = Len(results)
         /\ \A i \in 1..Len(results) :
               \/ results'[i] = results[i]
               \/ results[i].status = "queued" /\ results'[i].status = "running"
               \/ results[i].status = "running" /\ results'[i].status = "fulfilled"

C17_EveryTaskRunsOnce ==
    /\ [][C17_Step]_vars
    /\ (pc = "render") ~> AllSettledNow

\* four or more tasks have all settled through a single slot
C17_Witness ==
    /\ AllSettledNow
    /\ concurrentLimit = 1
    /\ Len(results) >= 4
====
